---- MODULE Spec2Model ----
(***************************************************************************)
(* Model of the chat orchestrator of src/App.jsx: the React state          *)
(* (messages, input, images, loading), the handlers send and handleImages, *)
(* and the suspended bodies of send/submitToAI that resume when the image  *)
(* read or the model call settles.                                         *)
(*                                                                         *)
(* A JavaScript string is a sequence of tokens (TLA+ strings); string      *)
(* concatenation is \o, the empty string is << >>.  A user-typed character *)
(* is one token; a program literal is one token (two when a prefix of it   *)
(* matters).                                                               *)
(***************************************************************************)
EXTENDS Integers, Sequences, FiniteSets, TLC

VARIABLES messages, input, images, loading, calls, origin, ncalls, last

vars == <<messages, input, images, loading, calls, origin, ncalls, last>>

\* ------------------------------------------------------------------ bounds
MaxSubs == 2
MaxSel == 2

\* ------------------------------------------------------- program constants
MaxImageBytes == 5 * 1024 * 1024

ImagePrefix == <<"image/">>

Placeholder == <<"Prescription uploaded">>

Preamble == <<"\nYou are DoctorGPT ... User message:\n">>

\* The token "U+274C" is the cross-mark character that opens the literal.
FailureText == <<"U+274C", " ", "Something went wrong. Please try again.">>

Whitespace == {" ", "\n", "\t"}

\* ------------------------------------------------------------------ inputs
\* Values the textarea can hold: empty, blank, text, text inside blanks.
Inputs == {<< >>, <<" ">>, <<" ", "a", " ">>}

\* Replies the model service can return; one of them is the text of an error.
Replies == {<<"Take rest.">>, <<"NetworkError">>}

\* Values a rejected promise can carry.
Errors == {<<"NetworkError">>, <<"TypeError">>}

File(n, t, s, c) == [name |-> n, type |-> t, size |-> s, content |-> c]

Png4MB == File("a.png", <<"image/", "png">>, 4 * 1024 * 1024, "QUJD")
Jpeg5MB == File("b.jpg", <<"image/", "jpeg">>, 5 * 1024 * 1024, "REVG")
Png5MBplus1 == File("c.png", <<"image/", "png">>, 5 * 1024 * 1024 + 1, "R0hJ")
Png6MB == File("d.png", <<"image/", "png">>, 6 * 1024 * 1024, "SktM")
Pdf1KB == File("e.pdf", <<"application/", "pdf">>, 1024, "TU5P")
Unknown1KB == File("f", << >>, 1024, "UFFS")

\* Files offered by the picker in the full machine (one file per selection:
\* the <input> has no `multiple` attribute).
PickFiles == {Jpeg5MB, Pdf1KB}

\* Files offered when the change event carries a list of files.
AllFiles == {Png4MB, Jpeg5MB, Png5MBplus1, Png6MB, Pdf1KB, Unknown1KB}

SeqsUpTo(S, n) == UNION {[1..k -> S] : k \in 0..n}

Selections == SeqsUpTo(AllFiles, MaxSel)

\* -------------------------------------------------------- string functions
RECURSIVE TrimStart(_)
TrimStart(s) ==
  IF s # << >> /\ Head(s) \in Whitespace THEN TrimStart(Tail(s)) ELSE s

RECURSIVE TrimEnd(_)
TrimEnd(s) ==
  IF s # << >> /\ s[Len(s)] \in Whitespace
  THEN TrimEnd(SubSeq(s, 1, Len(s) - 1)) ELSE s

\* String.prototype.trim
trim(s) == TrimEnd(TrimStart(s))

\* String.prototype.startsWith
startsWith(s, p) == Len(s) >= Len(p) /\ SubSeq(s, 1, Len(p)) = p

\* String.prototype.split(sep) for a one-token separator
RECURSIVE SplitFrom(_, _, _)
SplitFrom(s, sep, cur) ==
  IF s = << >> THEN <<cur>>
  ELSE IF Head(s) = sep THEN <<cur>> \o SplitFrom(Tail(s), sep, << >>)
  ELSE SplitFrom(Tail(s), sep, Append(cur, Head(s)))

split(s, sep) == SplitFrom(s, sep, << >>)

\* FileReader.readAsDataURL: "data:<type>;base64,<payload>"
readAsDataURL(file) ==
  <<"data:">> \o file.type \o <<";base64", ",", file.content>>

\* fileToBase64, resolved branch: reader.result.split(",")[1]
fileToBase64(file) == split(readAsDataURL(file), ",")[2]

\* ------------------------------------------------------------ submitToAI
textPart_NoPlaceholder(text) == [text |-> Preamble \o text \o <<"\n">>]

\* The text part: the template literal ending in ${text || "Prescription uploaded"}
textPart(text) ==
  [text |-> Preamble \o (IF text # << >> THEN text ELSE Placeholder) \o <<"\n">>]

imagePart(file) ==
  [inlineData |-> [data |-> fileToBase64(file), mimeType |-> file.type]]

\* ---------------------------------------------------------------- helpers
UserIdx == {i \in 1..Len(origin) : origin[i].role = "user"}
BotIdx == {i \in 1..Len(origin) : origin[i].role = "bot"}
NSub == Cardinality(UserIdx)
InFlight == DOMAIN calls

Put(f, k, v) == [x \in (DOMAIN f) \cup {k} |-> IF x = k THEN v ELSE f[x]]
Drop(f, k) == [x \in (DOMAIN f) \ {k} |-> f[x]]

\* ------------------------------------------------------------------- Init
Init ==
  /\ messages = << >>
  /\ input = << >>
  /\ images = << >>
  /\ loading = FALSE
  /\ calls = << >>
  /\ origin = << >>
  /\ ncalls = 0
  /\ last = [op |-> "init"]

\* ---------------------------------------------------------------- actions
\* textarea onChange
setInput(v) ==
  /\ input' = v
  /\ last' = [op |-> "setInput"]
  /\ UNCHANGED <<messages, images, loading, calls, origin, ncalls>>

accepts_StrictSize(f) == startsWith(f.type, ImagePrefix) /\ f.size < MaxImageBytes

\* the filter predicate of handleImages
accepts(f) == startsWith(f.type, ImagePrefix) /\ f.size <= MaxImageBytes

\* setImages(valid)
setImages(valid) == images' = valid

\* file input onChange
handleImages(files) ==
  /\ setImages(SelectSeq(files, accepts))
  /\ last' = [op |-> "handleImages", files |-> files, before |-> images]
  /\ UNCHANGED <<messages, input, loading, calls, origin, ncalls>>

pushMessage_Prepend(msg, tag) ==
  /\ messages' = <<msg>> \o messages
  /\ origin' = <<tag>> \o origin

\* setMessages((m) => [...m, msg]); tag is the history entry for msg
pushMessage(msg, tag) ==
  /\ messages' = Append(messages, msg)
  /\ origin' = Append(origin, tag)

rejected_NoTrim == input = << >> /\ Len(images) = 0

\* the early return of send
rejected == trim(input) = << >> /\ Len(images) = 0

\* send, up to its first await.  via is "key" (Enter) or "click" (button).
send(via) ==
  IF rejected
  THEN /\ last' = [op |-> "send", via |-> via, accepted |-> FALSE]
       /\ UNCHANGED <<messages, input, images, loading, calls, origin, ncalls>>
  ELSE LET id == NSub + 1
           userMessage == [role |-> "user", text |-> input, images |-> images]
           hasImage == Len(userMessage.images) > 0
       IN /\ NSub < MaxSubs
          /\ pushMessage(userMessage, [role |-> "user", sub |-> id])
          /\ input' = << >>
          /\ images' = << >>
          /\ loading' = TRUE
          /\ calls' = Put(calls, id,
                [pc |-> IF hasImage THEN "read" ELSE "generate",
                 text |-> userMessage.text,
                 images |-> userMessage.images,
                 parts |-> <<textPart(userMessage.text)>>])
          /\ ncalls' = IF hasImage THEN ncalls ELSE ncalls + 1
          /\ last' = [op |-> "send", via |-> via, accepted |-> TRUE, sub |-> id]

SendKey_Guarded == ~loading /\ send("key")

\* textarea onKeyDown, Enter without Shift
SendKey == send("key")

\* Send button, disabled={loading}
SendClick == ~loading /\ send("click")

succeed_Double(id, reply) ==
  /\ messages' = messages \o <<[role |-> "bot", text |-> reply],
                               [role |-> "bot", text |-> reply]>>
  /\ origin' = origin \o <<[role |-> "bot", sub |-> id, ok |-> TRUE],
                           [role |-> "bot", sub |-> id, ok |-> TRUE]>>
  /\ loading' = FALSE
  /\ calls' = Drop(calls, id)

\* try-branch tail of send: the reply is appended, then finally runs
succeed(id, reply) ==
  /\ pushMessage([role |-> "bot", text |-> reply],
                 [role |-> "bot", sub |-> id, ok |-> TRUE])
  /\ loading' = FALSE
  /\ calls' = Drop(calls, id)

fail_NoAppend(id, err) ==
  /\ UNCHANGED <<messages, origin>>
  /\ loading' = FALSE
  /\ calls' = Drop(calls, id)

fail_RawError(id, err) ==
  /\ pushMessage([role |-> "bot", text |-> err],
                 [role |-> "bot", sub |-> id, ok |-> FALSE])
  /\ loading' = FALSE
  /\ calls' = Drop(calls, id)

fail_NoFinally(id, err) ==
  /\ pushMessage([role |-> "bot", text |-> FailureText],
                 [role |-> "bot", sub |-> id, ok |-> FALSE])
  /\ loading' = loading
  /\ calls' = Drop(calls, id)

\* catch-branch of send, then finally
fail(id, err) ==
  /\ pushMessage([role |-> "bot", text |-> FailureText],
                 [role |-> "bot", sub |-> id, ok |-> FALSE])
  /\ loading' = FALSE
  /\ calls' = Drop(calls, id)

\* reader.onload: submitToAI resumes, pushes the image part and calls the model
ReadOk(id) ==
  /\ id \in InFlight /\ calls[id].pc = "read"
  /\ calls' = [calls EXCEPT ![id].pc = "generate",
                            ![id].parts = Append(@, imagePart(calls[id].images[1]))]
  /\ ncalls' = ncalls + 1
  /\ last' = [op |-> "readOk", sub |-> id]
  /\ UNCHANGED <<messages, input, images, loading, origin>>

\* reader.onerror: the promise rejects, submitToAI rejects, send catches
ReadFail(id, err) ==
  /\ id \in InFlight /\ calls[id].pc = "read"
  /\ fail(id, err)
  /\ last' = [op |-> "readFail", sub |-> id, err |-> err]
  /\ UNCHANGED <<input, images, ncalls>>

\* model.generateContent resolves and result.response.text() returns
GenerateOk(id, reply) ==
  /\ id \in InFlight /\ calls[id].pc = "generate"
  /\ succeed(id, reply)
  /\ last' = [op |-> "generateOk", sub |-> id, reply |-> reply]
  /\ UNCHANGED <<input, images, ncalls>>

\* model.generateContent rejects, or result.response.text() throws
GenerateFail(id, err) ==
  /\ id \in InFlight /\ calls[id].pc = "generate"
  /\ fail(id, err)
  /\ last' = [op |-> "generateFail", sub |-> id, err |-> err]
  /\ UNCHANGED <<input, images, ncalls>>

\* ---------------------------------------------------------- specifications
\* The whole machine: typing, picking one file, both ways to send, and the
\* settling of every pending read and call.
Next ==
  \/ \E v \in Inputs : setInput(v)
  \/ \E f \in PickFiles : handleImages(<<f>>)
  \/ SendKey
  \/ SendClick
  \/ \E id \in 1..MaxSubs : ReadOk(id)
  \/ \E id \in 1..MaxSubs, err \in Errors : ReadFail(id, err)
  \/ \E id \in 1..MaxSubs, reply \in Replies : GenerateOk(id, reply)
  \/ \E id \in 1..MaxSubs, err \in Errors : GenerateFail(id, err)

Spec == Init /\ [][Next]_vars

\* The image picker alone, with change events that carry lists of files.
NextImages ==
  \/ \E v \in Inputs : setInput(v)
  \/ \E files \in Selections : handleImages(files)

SpecImages == Init /\ [][NextImages]_vars

\* The machine over fewer input values, with every pending read and call
\* settling eventually (the browser's event loop runs every settled promise's
\* continuation).
LiveInputs == {<< >>, <<"a">>}
LiveReplies == {<<"Take rest.">>}
LiveErrors == {<<"TypeError">>}

NextLive ==
  \/ \E v \in LiveInputs : setInput(v)
  \/ handleImages(<<Jpeg5MB>>)
  \/ SendKey
  \/ SendClick
  \/ \E id \in 1..MaxSubs : ReadOk(id)
  \/ \E id \in 1..MaxSubs, err \in LiveErrors : ReadFail(id, err)
  \/ \E id \in 1..MaxSubs, reply \in LiveReplies : GenerateOk(id, reply)
  \/ \E id \in 1..MaxSubs, err \in LiveErrors : GenerateFail(id, err)

LiveResume(id) ==
  \/ ReadOk(id)
  \/ \E err \in LiveErrors : ReadFail(id, err)
  \/ \E reply \in LiveReplies : GenerateOk(id, reply)
  \/ \E err \in LiveErrors : GenerateFail(id, err)

LiveSpec ==
  Init /\ [][NextLive]_vars /\ \A id \in 1..MaxSubs : WF_vars(LiveResume(id))

TypeOK ==
  /\ loading \in BOOLEAN
  /\ Len(origin) = Len(messages)
  /\ InFlight \subseteq 1..NSub
  /\ NSub <= MaxSubs
  /\ \A i \in 1..Len(origin) : origin[i].role = messages[i].role

\* ------------------------------------------------------------------ claims
UserMsgIdx(id) == {i \in UserIdx : origin[i].sub = id}
BotMsgIdx(id) == {i \in BotIdx : origin[i].sub = id}
IsBlank(s) == \A i \in 1..Len(s) : s[i] \in {" ", "\n", "\t"}
IsPrefix(s, t) == Len(s) <= Len(t) /\ \A i \in 1..Len(s) : s[i] = t[i]
LastMessage == messages[Len(messages)]

\* C1: while a submission is in flight (its user Message appended, its bot
\* Message not yet appended) the busy flag loading is true.
C1_BusyWhileInFlight == \A id \in InFlight : loading = TRUE

\* C2: a send taken with blank input and no pending image appends no
\* Message, starts no call and leaves input, images and loading unchanged.
C2_BlankSendIsNoop ==
  [][(last'.op = "send" /\ IsBlank(input) /\ images = << >>)
       => /\ messages' = messages
          /\ calls' = calls
          /\ ncalls' = ncalls
          /\ input' = input
          /\ images' = images
          /\ loading' = loading]_vars

C2_Witness ==
  /\ last.op = "send" /\ ~last.accepted
  /\ input = <<" ">>
  /\ images = << >>
  /\ messages # << >>

\* C3: every accepted submission has exactly one user Message, appended
\* before its call is started, and exactly one bot Message once it has
\* settled (none before), placed after its user Message.
C3_OneUserOneBot ==
  /\ ncalls <= NSub
  /\ \A id \in InFlight : id \in 1..NSub
  /\ \A id \in 1..NSub :
       /\ Cardinality(UserMsgIdx(id)) = 1
       /\ Cardinality(BotMsgIdx(id)) = (IF id \in InFlight THEN 0 ELSE 1)
       /\ \A i \in UserMsgIdx(id), j \in BotMsgIdx(id) :
            i < j /\ messages[i].role = "user" /\ messages[j].role = "bot"
  /\ Len(messages) = NSub + Cardinality(BotIdx)

C3_Witness ==
  /\ Len(messages) = 4
  /\ InFlight = {}
  /\ \E i, j \in BotIdx : origin[i].ok /\ ~origin[j].ok
  /\ \E i \in UserIdx : messages[i].text # << >> /\ messages[i].images = << >>

\* C4 as stated: the bot Message of a failed submission has the text
\* "Something went wrong. Please try again."
C4_FailureTextAsStated ==
  \A i \in BotIdx :
    ~origin[i].ok => messages[i].text = <<"Something went wrong. Please try again.">>

\* C4 amended: the bot Message of a failed submission has the text made of the
\* cross mark, a space and "Something went wrong. Please try again.", whatever
\* the error was, and holds no part of the error; the bot Message of a
\* successful submission has the reply of the service as its text.
C4_FailureTextFixed ==
  /\ \A i \in BotIdx :
       ~origin[i].ok =>
         messages[i].text = <<"U+274C", " ", "Something went wrong. Please try again.">>
  /\ last.op \in {"readFail", "generateFail"} =>
       /\ ~origin[Len(origin)].ok
       /\ \A k \in 1..Len(LastMessage.text), e \in 1..Len(last.err) :
            LastMessage.text[k] # last.err[e]
  /\ last.op = "generateOk" =>
       origin[Len(origin)].ok /\ LastMessage.text = last.reply

C4_Witness ==
  /\ last.op = "readFail"
  /\ \E i, j \in BotIdx : i # j /\ origin[i].ok /\ ~origin[j].ok
  /\ \E i \in BotIdx : origin[i].ok /\ messages[i].text = <<"NetworkError">>

\* C5: in every step the transcript before the step is a prefix of the
\* transcript after it.
C5_AppendOnly == [][IsPrefix(messages, messages')]_vars

C5_Witness ==
  /\ Len(messages) = 4
  /\ messages[1].role = "user" /\ messages[2].role = "user"
  /\ messages[3].role = "bot" /\ messages[4].role = "bot"
  /\ origin[3].sub = 2 /\ origin[4].sub = 1

\* C6: after an image selection the pending images are exactly the selected
\* files, in order, whose type starts with "image/" and whose size is at most
\* 5242880 bytes, whatever was pending before.
C6_Eligible(f) == f.type # << >> /\ f.type[1] = "image/" /\ f.size <= 5242880

C6_OnlyValidImages ==
  last.op = "handleImages" =>
    /\ images = SelectSeq(last.files, C6_Eligible)
    /\ \A i \in 1..Len(images) :
         images[i] \notin {Png5MBplus1, Png6MB, Pdf1KB, Unknown1KB}
    /\ \A i \in 1..Len(last.files) :
         last.files[i] \in {Png4MB, Jpeg5MB} =>
           \E k \in 1..Len(images) : images[k] = last.files[i]

C6_Witness ==
  /\ last.op = "handleImages"
  /\ last.before = <<Png4MB>>
  /\ last.files = <<Png6MB, Jpeg5MB>>
  /\ images = <<Jpeg5MB>>

\* C7: the text part of a submission's request ends with the placeholder
\* "Prescription uploaded" when the submission has an image and empty text,
\* and with the user's literal text when the text is not empty.
C7_TextPartOf(id) == calls[id].parts[1].text

C7_PlaceholderOrLiteral ==
  \A id \in InFlight : \A i \in UserMsgIdx(id) :
    /\ (messages[i].text = << >> /\ messages[i].images # << >>) =>
         C7_TextPartOf(id) = Preamble \o <<"Prescription uploaded", "\n">>
    /\ messages[i].text # << >> =>
         C7_TextPartOf(id) = Preamble \o messages[i].text \o <<"\n">>
    /\ C7_TextPartOf(id) # Preamble \o <<"\n">>

C7_Witness ==
  \E id \in InFlight : \E i \in UserMsgIdx(id) :
    /\ calls[id].pc = "generate"
    /\ Len(calls[id].parts) = 2
    /\ messages[i].text = << >>
    /\ \E j \in InFlight : calls[j].text = <<" ", "a", " ">>

\* C8: when no submission is in flight loading is false, and every state with
\* loading true is followed by a state with loading false.
C8_BusyCleared ==
  /\ [](InFlight = {} => loading = FALSE)
  /\ (loading = TRUE) ~> (loading = FALSE)

C8_Witness ==
  /\ last.op = "generateFail"
  /\ InFlight = {}
  /\ loading = FALSE
  /\ Len(messages) >= 2

\* C9: whenever the input or the pending images make a submission acceptable,
\* the Enter key can dispatch it, also while loading is true and a call is
\* pending.
C9_Dispatched == NSub' = NSub + 1 /\ Cardinality(InFlight') = Cardinality(InFlight) + 1

C9_KeyDispatchNotGuarded ==
  (loading /\ InFlight # {} /\ NSub < MaxSubs /\ (~IsBlank(input) \/ images # << >>))
    => ENABLED (SendKey /\ C9_Dispatched)

C9_Witness ==
  /\ loading
  /\ Cardinality(InFlight) >= 2
  /\ \A id \in InFlight : calls[id].pc = "generate"
  /\ last.op = "send" /\ last.via = "key" /\ last.accepted

\* C10: the number of user Messages equals the number of bot Messages plus
\* the number of submissions in flight, and the first Message is a user one.
C10_Users == {i \in 1..Len(messages) : messages[i].role = "user"}
C10_Bots == {i \in 1..Len(messages) : messages[i].role = "bot"}

C10_UserBotBalance ==
  /\ Cardinality(C10_Users) = Cardinality(C10_Bots) + Cardinality(InFlight)
  /\ Cardinality(C10_Bots) <= Cardinality(C10_Users)
  /\ messages # << >> => messages[1].role = "user"
  /\ InFlight = {} => Cardinality(C10_Users) = Cardinality(C10_Bots)

C10_Witness ==
  /\ Cardinality(C10_Users) = 2
  /\ Cardinality(C10_Bots) = 1
  /\ Cardinality(InFlight) = 1
  /\ messages[2].role = "bot"

====
